---- MODULE Spec2Model ----
(***************************************************************************)
(* State-machine model of src/app.js: the in-memory analytics state        *)
(* (events, leads, milestone sets), the modal controller, the field        *)
(* validator and the three submission flows.  Every DOM listener and timer *)
(* callback is one atomic action (the page runs on a single event loop and *)
(* each handler runs to completion).  An `await` splits a handler into the *)
(* part before it and the continuation, which is a pending callback.       *)
(*                                                                         *)
(* Strings that the validator inspects are sequences of one-character      *)
(* strings over Chars; one character stands for each class the regular     *)
(* expressions of app.js distinguish (letter, digit, "@", ".", blank).     *)
(***************************************************************************)
EXTENDS Integers, Sequences, FiniteSets, TLC

VARIABLES
    sessionId,       \* state.sessionId
    variant,         \* state.variant
    startTime,       \* state.startTime (ms)
    now,             \* the wall clock read by Date.now() (ms)
    events,          \* state.events
    leads,           \* state.leads
    scrollDepths,    \* state.scrollDepths
    timeMilestones,  \* state.timeMilestones
    modalActive,     \* the modal ids whose element carries class "active"
    bodyOverflow,    \* document.body.style.overflow
    fieldValue,      \* input id -> input.value
    fieldClass,      \* input id -> "valid" | "invalid" | "none" (classList)
    submitLoading,   \* form -> submit button carries class "loading"
    submitDisabled,  \* form -> submit button's disabled property
    formSubmitted,   \* form -> form carries class "submitted"
    successShow,     \* form -> success panel carries class "show"
    delayPending,    \* form -> formData of each handler suspended at its await
    resetPending,    \* form -> number of scheduled auto-reset timers
    emailDisplay,    \* emailCaptureForm.style.display
    emailPending,    \* number of scheduled email auto-reset timers
    toastShow,       \* toast carries class "show"
    toastPending,    \* number of scheduled toast-hide timers
    lastScrollTop,   \* lastScrollTop of the scroll-depth listener
    vInput,          \* the input element handed to validateField (validator runs)
    vResult,         \* what validateField returned for vInput
    endTime,         \* endTime of the countdown (ms)
    countdownText,   \* countdownEl.textContent
    cardCount,       \* testimonialCards.length
    testimonialIndex,\* testimonialIndex
    chatOpen,        \* chatWindow carries class "open"
    chatLog,         \* the children of chatMessages, oldest first
    chatInputValue,  \* chatInput.value
    greetPending,    \* number of scheduled greeting timers (300 ms)
    replyPending     \* texts of the scheduled bot-reply timers (800 ms), oldest first

vars == <<sessionId, variant, startTime, now, events, leads, scrollDepths,
          timeMilestones, modalActive, bodyOverflow, fieldValue, fieldClass,
          submitLoading, submitDisabled, formSubmitted, successShow,
          delayPending, resetPending, emailDisplay, emailPending, toastShow,
          toastPending, lastScrollTop, vInput, vResult, endTime,
          countdownText, cardCount, testimonialIndex, chatOpen, chatLog,
          chatInputValue, greetPending, replyPending>>

sessionVars == <<sessionId, variant, startTime>>
trackVars   == <<scrollDepths, timeMilestones, lastScrollTop>>
modalVars   == <<modalActive, bodyOverflow>>
fieldVars   == <<fieldValue, fieldClass>>
formVars    == <<submitLoading, submitDisabled, formSubmitted, successShow,
                 delayPending, resetPending>>
emailVars   == <<emailDisplay, emailPending>>
toastVars   == <<toastShow, toastPending>>
validVars   == <<vInput, vResult>>
countdownVars == <<endTime, countdownText>>
carouselVars  == <<cardCount, testimonialIndex>>
chatVars      == <<chatOpen, chatLog, chatInputValue, greetPending, replyPending>>
widgetVars    == <<countdownVars, carouselVars, chatVars>>

----------------------------------------------------------------------------
(* Bounds of the model *)

\* longest raw input value explored by the validator runs
MaxLen == 5
\* user-triggered handlers are explored while the event log is shorter than this
MaxEvents == 4
\* invalid submits are explored while fewer toast timers than this are pending
MaxToasts == 1
\* valid submits are explored while fewer submissions than this were accepted
MaxLeads == 2

----------------------------------------------------------------------------
(* Strings *)

Chars == {"a", "1", "@", ".", " "}
Letters == {"a"}
Digits == {"1"}
Blanks == {" "}

StringsUpTo(n) == UNION {[1..k -> Chars] : k \in 0..n}

\* String.prototype.trim
RECURSIVE trimStart(_)
trimStart(s) ==
    IF s # <<>> /\ Head(s) \in Blanks THEN trimStart(Tail(s)) ELSE s

RECURSIVE trimEnd(_)
trimEnd(s) ==
    IF s # <<>> /\ s[Len(s)] \in Blanks
    THEN trimEnd(SubSeq(s, 1, Len(s) - 1)) ELSE s

trim(s) == trimEnd(trimStart(s))

\* [^\s@]+ matches the whole of s
NoBlankNoAt(s) ==
    /\ Len(s) >= 1
    /\ \A i \in 1..Len(s) : s[i] \notin Blanks /\ s[i] # "@"

\* emailRegex = /^[^\s@]+@[^\s@]+\.[^\s@]+$/  (test)
emailRegexTest(s) ==
    \E i \in 1..Len(s) : \E j \in 1..Len(s) :
        /\ i < j
        /\ s[i] = "@"
        /\ s[j] = "."
        /\ NoBlankNoAt(SubSeq(s, 1, i - 1))
        /\ NoBlankNoAt(SubSeq(s, i + 1, j - 1))
        /\ NoBlankNoAt(SubSeq(s, j + 1, Len(s)))

\* nameRegex = /^[a-zA-Z\s]{2,}$/  (test)
nameRegexTest(s) ==
    /\ Len(s) >= 2
    /\ \A i \in 1..Len(s) : s[i] \in Letters \cup Blanks

\* /^[0-9]*$/  (test)
numericRegexTest(s) == \A i \in 1..Len(s) : s[i] \in Digits

----------------------------------------------------------------------------
(* Form validation *)

\* the minlength attribute is absent
NoMinLength == -1

MsgRequired == <<"This field is required">>
MsgEmail == <<"Please enter a valid email">>
MsgMinimum(n) == <<"Minimum", n, "characters required">>
MsgName == <<"Please enter a valid name (letters only)">>
MsgDOT == <<"DOT number must be numeric">>
MsgNone == <<>>

\* An input element as validateField reads it:
\*   value, type, required (hasAttribute), minlength (attribute or NoMinLength),
\*   idName (id.includes('Name')), idDOT (id.includes('DOT'))
\* The result: isValid, errorMsg (the text written to the error element, which
\* no handler reads back) and the marker class the element ends with.
validateField(input) ==
    LET value == trim(input.value)
        chain ==
            IF input.required /\ value = <<>>
            THEN [isValid |-> FALSE, errorMsg |-> MsgRequired]
            ELSE IF input.type = "email" /\ value # <<>> /\ ~emailRegexTest(value)
            THEN [isValid |-> FALSE, errorMsg |-> MsgEmail]
            ELSE IF input.minlength # NoMinLength
            THEN IF Len(value) < input.minlength
                 THEN [isValid |-> FALSE, errorMsg |-> MsgMinimum(input.minlength)]
                 ELSE [isValid |-> TRUE, errorMsg |-> MsgNone]
            ELSE IF input.idName /\ value # <<>> /\ ~nameRegexTest(value)
            THEN [isValid |-> FALSE, errorMsg |-> MsgName]
            ELSE IF input.idDOT /\ value # <<>> /\ ~numericRegexTest(value)
            THEN [isValid |-> FALSE, errorMsg |-> MsgDOT]
            ELSE [isValid |-> TRUE, errorMsg |-> MsgNone]
        cls == IF chain.isValid /\ value # <<>> THEN "valid"
               ELSE IF ~chain.isValid THEN "invalid"
               ELSE "none"
    IN  [isValid |-> chain.isValid, errorMsg |-> chain.errorMsg, cls |-> cls]

----------------------------------------------------------------------------
(* Session and analytics tracking *)

\* Math.random() in hundredths, on both sides of the 0.5 split
RandomDraws == {0, 49, 50, 99}
\* Math.random().toString(36).substr(2, 9)
RandomSuffixes == {"k3x9q0zr1"}
\* Date.now() at load (ms)
LoadTimes == {1000}
\* the instants (ms) at which the model reads the clock after load
ClockSamples == {30999, 31000, 61000, 121000}

generateSessionId(t, suffix) == <<"session_", t, "_", suffix>>

\* Mutant of pickVariant: a draw at the top of the range falls in no bucket
pickVariantThreeWay(r) == IF r < 50 THEN "A" ELSE IF r < 99 THEN "B" ELSE "C"

\* Math.random() < 0.5 ? 'A' : 'B'
pickVariant(r) == IF r < 50 THEN "A" ELSE "B"

NoData == [k \in {} |-> k]

trackEventPrepend(log, eventName, data) ==
    <<data @@ [event |-> eventName, timestamp |-> now,
               variant |-> variant, sessionId |-> sessionId]>> \o log

trackEventFixedVariant(log, eventName, data) ==
    Append(log, data @@ [event |-> eventName, timestamp |-> now,
                         variant |-> "A", sessionId |-> sessionId])

\* trackEvent(eventName, data) applied to the log: the spread of data comes
\* last in the object literal, so a key of data replaces the base key.
trackEvent(log, eventName, data) ==
    Append(log, data @@ [event |-> eventName, timestamp |-> now,
                         variant |-> variant, sessionId |-> sessionId])

saveLeadTwice(list, leadData) == Append(Append(list, leadData), leadData)

\* saveLead / state.leads.push
saveLead(list, leadData) == Append(list, leadData)

\* the clock moves on between handlers
Advance ==
    /\ \E t \in ClockSamples : t > now /\ now' = t
    /\ UNCHANGED <<sessionVars, widgetVars, events, leads, trackVars, modalVars, fieldVars,
                   formVars, emailVars, toastVars, validVars>>

----------------------------------------------------------------------------
(* Scroll depth and time on page *)

ScrollMilestones == <<25, 50, 75, 100>>
TimeMilestones == <<30, 60, 120>>

\* window.pageYOffset and scrollHeight - innerHeight
ScrollTops == {0, 99, 100, 200, 300, 400}
DocHeights == {0, 400}

scrollReachesExactly(scrollTop, docHeight, milestone) ==
    IF docHeight = 0 THEN scrollTop > 0
    ELSE (scrollTop * 100) \div docHeight = milestone

\* scrollPercent >= milestone, with scrollPercent = Math.floor((scrollTop / docHeight) * 100);
\* a zero docHeight gives NaN (0/0, never >=) or Infinity (always >=)
scrollReaches(scrollTop, docHeight, milestone) ==
    IF docHeight = 0 THEN scrollTop > 0
    ELSE (scrollTop * 100) \div docHeight >= milestone

\* Mutant of scrollEach: the forEach body without the scrollDepths.has test
RECURSIVE scrollEachNoHas(_, _, _, _)
scrollEachNoHas(i, scrollTop, docHeight, acc) ==
    IF i > Len(ScrollMilestones) THEN acc
    ELSE LET milestone == ScrollMilestones[i]
             next == IF scrollReaches(scrollTop, docHeight, milestone)
                     THEN [fired |-> acc.fired \cup {milestone},
                           log |-> trackEvent(acc.log, "scroll_depth", [depth |-> milestone])]
                     ELSE acc
         IN  scrollEachNoHas(i + 1, scrollTop, docHeight, next)

\* [25, 50, 75, 100].forEach(...) from milestone number i on; acc = [fired, log]
RECURSIVE scrollEach(_, _, _, _)
scrollEach(i, scrollTop, docHeight, acc) ==
    IF i > Len(ScrollMilestones) THEN acc
    ELSE LET milestone == ScrollMilestones[i]
             next == IF scrollReaches(scrollTop, docHeight, milestone)
                        /\ milestone \notin acc.fired
                     THEN [fired |-> acc.fired \cup {milestone},
                           log |-> trackEvent(acc.log, "scroll_depth", [depth |-> milestone])]
                     ELSE acc
         IN  scrollEach(i + 1, scrollTop, docHeight, next)

\* window 'scroll' listener (scroll depth)
Scroll ==
    \E scrollTop \in ScrollTops : \E docHeight \in DocHeights :
        LET r == scrollEach(1, scrollTop, docHeight,
                            [fired |-> scrollDepths, log |-> events])
        IN  /\ scrollDepths' = r.fired
            /\ events' = r.log
            /\ lastScrollTop' = scrollTop
            /\ UNCHANGED <<sessionVars, widgetVars, now, leads, timeMilestones, modalVars,
                           fieldVars, formVars, emailVars, toastVars, validVars>>

RECURSIVE timeEach(_, _, _)
timeEach(i, timeOnPage, acc) ==
    IF i > Len(TimeMilestones) THEN acc
    ELSE LET milestone == TimeMilestones[i]
             next == IF timeOnPage >= milestone /\ milestone \notin acc.fired
                     THEN [fired |-> acc.fired \cup {milestone},
                           log |-> trackEvent(acc.log, "time_on_page", [seconds |-> milestone])]
                     ELSE acc
         IN  timeEach(i + 1, timeOnPage, next)

\* setInterval callback (time on page)
TimeTick ==
    LET timeOnPage == (now - startTime) \div 1000
        r == timeEach(1, timeOnPage, [fired |-> timeMilestones, log |-> events])
    IN  /\ timeMilestones' = r.fired
        /\ events' = r.log
        /\ UNCHANGED <<sessionVars, widgetVars, now, leads, scrollDepths, lastScrollTop,
                       modalVars, fieldVars, formVars, emailVars, toastVars,
                       validVars>>

----------------------------------------------------------------------------
(* Modal management *)

\* Object.keys(modals); every modal element exists in the page
ModalIds == {"choice", "enterprise", "carrier"}
ModalKeys == <<"choice", "enterprise", "carrier">>

\* The part of the state openModal and closeModal touch, as a record
ModalState == [active |-> modalActive, overflow |-> bodyOverflow, log |-> events]

openModal(m, modalName) ==
    IF modalName \in ModalIds
    THEN [active |-> m.active \cup {modalName},
          overflow |-> "hidden",
          log |-> trackEvent(m.log, "modal_opened", [modal |-> modalName])]
    ELSE m

\* Mutant of closeModal: classList.toggle in place of classList.remove
closeModalToggle(m, modalName) ==
    IF modalName \in ModalIds
    THEN [active |-> IF modalName \in m.active THEN m.active \ {modalName}
                     ELSE m.active \cup {modalName},
          overflow |-> "",
          log |-> trackEvent(m.log, "modal_closed", [modal |-> modalName])]
    ELSE m

\* Mutant of closeModal: the class "active" is not removed
closeModalKeepsActive(m, modalName) ==
    IF modalName \in ModalIds
    THEN [active |-> m.active,
          overflow |-> "",
          log |-> trackEvent(m.log, "modal_closed", [modal |-> modalName])]
    ELSE m

closeModal(m, modalName) ==
    IF modalName \in ModalIds
    THEN [active |-> m.active \ {modalName},
          overflow |-> "",
          log |-> trackEvent(m.log, "modal_closed", [modal |-> modalName])]
    ELSE m

\* m with one more tracked event
tracked(m, eventName, data) ==
    [m EXCEPT !.log = trackEvent(m.log, eventName, data)]

SetModalState(m) ==
    /\ modalActive' = m.active
    /\ bodyOverflow' = m.overflow
    /\ events' = m.log

modalFrame == <<sessionVars, widgetVars, now, leads, trackVars, fieldVars, formVars,
                emailVars, toastVars, validVars>>

\* user-triggered handlers are explored while the log is short
Room == Len(events) < MaxEvents

\* valid submits are explored while few submissions were accepted
LeadRoom ==
    Len(leads) + Len(delayPending["enterprise"]) + Len(delayPending["carrier"]) < MaxLeads

\* click on `${key}Backdrop`
BackdropClick(key) ==
    /\ Room
    /\ SetModalState(closeModal(ModalState, key))
    /\ UNCHANGED modalFrame

\* click on `${key}Close`
CloseBtnClick(key) ==
    /\ Room
    /\ SetModalState(closeModal(ModalState, key))
    /\ UNCHANGED modalFrame

\* Mutant of closeEach: only the modals that are open are closed
RECURSIVE closeEachOpen(_, _)
closeEachOpen(i, m) ==
    IF i > Len(ModalKeys) THEN m
    ELSE closeEachOpen(i + 1, IF ModalKeys[i] \in m.active
                              THEN closeModal(m, ModalKeys[i]) ELSE m)

\* Object.keys(modals).forEach(key => closeModal(key)) from key number i on
RECURSIVE closeEach(_, _)
closeEach(i, m) ==
    IF i > Len(ModalKeys) THEN m
    ELSE closeEach(i + 1, closeModal(m, ModalKeys[i]))

\* keydown listener; only e.key === 'Escape' does anything
KeydownEscape ==
    /\ Room
    /\ SetModalState(closeEach(1, ModalState))
    /\ UNCHANGED modalFrame

----------------------------------------------------------------------------
(* CTA buttons *)

HeaderSignupClick ==
    /\ Room
    /\ SetModalState(openModal(tracked(ModalState, "cta_clicked",
                                       [button |-> "header_signup"]), "choice"))
    /\ UNCHANGED modalFrame

EnterpriseCtaClick ==
    /\ Room
    /\ SetModalState(openModal(tracked(ModalState, "cta_clicked",
                                       [button |-> "enterprise_hero", variant |-> variant]),
                               "enterprise"))
    /\ UNCHANGED modalFrame

CarrierCtaClick ==
    /\ Room
    /\ SetModalState(openModal(tracked(ModalState, "cta_clicked",
                                       [button |-> "carrier_hero"]), "carrier"))
    /\ UNCHANGED modalFrame

ChoiceEnterpriseClick ==
    /\ Room
    /\ SetModalState(openModal(closeModal(ModalState, "choice"), "enterprise"))
    /\ UNCHANGED modalFrame

ChoiceCarrierClick ==
    /\ Room
    /\ SetModalState(openModal(closeModal(ModalState, "choice"), "carrier"))
    /\ UNCHANGED modalFrame

FabClick ==
    /\ Room
    /\ SetModalState(openModal(tracked(ModalState, "cta_clicked",
                                       [button |-> "fab"]), "choice"))
    /\ UNCHANGED modalFrame

FinalEnterpriseClick ==
    /\ Room
    /\ SetModalState(tracked(openModal(ModalState, "enterprise"), "cta_clicked",
                             [button |-> "final_enterprise"]))
    /\ UNCHANGED modalFrame

FinalCarrierClick ==
    /\ Room
    /\ SetModalState(tracked(openModal(ModalState, "carrier"), "cta_clicked",
                             [button |-> "final_carrier"]))
    /\ UNCHANGED modalFrame

----------------------------------------------------------------------------
(* Form inputs *)

\* The page's markup is not part of app.js.  The model carries the inputs of
\* each form that the submit handlers validate (.form-input[required]): a name
\* and an email input for the enterprise form, a DOT-number input for the
\* carrier form.  quickEmail belongs to the email capture form.
Forms == {"enterprise", "carrier"}
EntInputs == {"entName", "entEmail"}
CarInputs == {"carDOT"}
FormInputs == EntInputs \cup CarInputs
RequiredInputs(form) == IF form = "enterprise" THEN EntInputs ELSE CarInputs

InputAttrs(id) ==
    [type |-> IF id = "entEmail" THEN "email" ELSE "text",
     required |-> TRUE,
     minlength |-> NoMinLength,
     idName |-> id = "entName",
     idDOT |-> id = "carDOT"]

\* the input element with the given id, as validateField reads it
Element(values, id) == [value |-> values[id]] @@ InputAttrs(id)

\* what the user may type into an input
Typed(id) ==
    CASE id = "entName" -> {<<"a", "a">>}
      [] id = "entEmail" -> {<<"a", "@", "a", ".", "a">>}
      [] id = "carDOT" -> {<<"1", "1">>}
      [] id = "quickEmail" -> {<<"a", "@", "a", ".", "a">>, <<"a", "@", "a">>}

Empty == <<>>

\* 'input' listener of a .form-input: the value has changed; an input marked
\* invalid is validated again
Input(id) ==
    \E v \in Typed(id) \cup {Empty} :
        LET values == [fieldValue EXCEPT ![id] = v]
            r == validateField(Element(values, id))
        IN  /\ v # fieldValue[id]
            /\ fieldValue' = values
            /\ fieldClass' = IF fieldClass[id] = "invalid"
                              THEN [fieldClass EXCEPT ![id] = r.cls]
                              ELSE fieldClass
            /\ UNCHANGED <<sessionVars, widgetVars, now, events, leads, trackVars, modalVars,
                           formVars, emailVars, toastVars, validVars>>

\* 'blur' listener of a .form-input
Blur(id) ==
    LET r == validateField(Element(fieldValue, id))
    IN  /\ fieldClass' = [fieldClass EXCEPT ![id] = r.cls]
        /\ UNCHANGED <<sessionVars, widgetVars, now, events, leads, trackVars, modalVars,
                       fieldValue, formVars, emailVars, toastVars, validVars>>

\* the user edits quickEmail (it has no listener of its own)
QuickEmailInput ==
    \E v \in Typed("quickEmail") \cup {Empty} :
        /\ v # fieldValue["quickEmail"]
        /\ fieldValue' = [fieldValue EXCEPT !["quickEmail"] = v]
        /\ UNCHANGED <<sessionVars, widgetVars, now, events, leads, trackVars, modalVars,
                       fieldClass, formVars, emailVars, toastVars, validVars>>

----------------------------------------------------------------------------
(* Toast notifications *)

\* showToast(message): the primed toast variables (the text of the toast is
\* written and never read, and is left out)
showToast(message) ==
    /\ toastShow' = TRUE
    /\ toastPending' = toastPending + 1

\* the timer set by showToast
ToastHide ==
    /\ toastPending > 0
    /\ toastShow' = FALSE
    /\ toastPending' = toastPending - 1
    /\ UNCHANGED <<sessionVars, widgetVars, now, events, leads, trackVars, modalVars,
                   fieldVars, formVars, emailVars, validVars>>

----------------------------------------------------------------------------
(* Enterprise and carrier form submission *)

\* inputs.forEach(input => { if (!validateField(input)) allValid = false; })
allValid(form) ==
    \A id \in RequiredInputs(form) : validateField(Element(fieldValue, id)).isValid

\* the marker classes after validateField ran on the inputs
validatedClass(form) ==
    [id \in DOMAIN fieldClass |->
        IF id \in RequiredInputs(form)
        THEN validateField(Element(fieldValue, id)).cls ELSE fieldClass[id]]

\* the formData object literal of the handler
formData(form) ==
    IF form = "enterprise"
    THEN [name |-> fieldValue["entName"], email |-> fieldValue["entEmail"]]
    ELSE [dot |-> fieldValue["carDOT"]]

\* Mutant of submitHandler: the `return` after showToast is missing
submitHandlerNoReturn(form) ==
    /\ ~submitDisabled[form]
    /\ fieldClass' = validatedClass(form)
    /\ IF ~allValid(form)
       THEN /\ toastPending < MaxToasts
            /\ showToast("Please fill in all required fields correctly")
       ELSE /\ LeadRoom
            /\ UNCHANGED toastVars
    /\ submitLoading' = [submitLoading EXCEPT ![form] = TRUE]
    /\ submitDisabled' = [submitDisabled EXCEPT ![form] = TRUE]
    /\ delayPending' = [delayPending EXCEPT ![form] = Append(@, formData(form))]
    /\ UNCHANGED <<formSubmitted, successShow, resetPending>>
    /\ UNCHANGED <<sessionVars, widgetVars, now, events, leads, trackVars, modalVars,
                   fieldValue, emailVars, validVars>>

submitHandlerNoDelay(form) ==
    /\ ~submitDisabled[form]
    /\ fieldClass' = validatedClass(form)
    /\ IF ~allValid(form)
       THEN /\ toastPending < MaxToasts
            /\ showToast("Please fill in all required fields correctly")
            /\ UNCHANGED <<formVars, leads, events>>
       ELSE /\ LeadRoom
            /\ submitLoading' = [submitLoading EXCEPT ![form] = TRUE]
            /\ submitDisabled' = [submitDisabled EXCEPT ![form] = TRUE]
            /\ leads' = saveLead(leads, [type |-> form, timestamp |-> now,
                                         data |-> formData(form)])
            /\ events' = trackEvent(events, "form_submitted", [formType |-> form])
            /\ formSubmitted' = [formSubmitted EXCEPT ![form] = TRUE]
            /\ successShow' = [successShow EXCEPT ![form] = TRUE]
            /\ resetPending' = [resetPending EXCEPT ![form] = @ + 1]
            /\ UNCHANGED <<delayPending, toastVars>>
    /\ UNCHANGED <<sessionVars, widgetVars, now, trackVars, modalVars,
                   fieldValue, emailVars, validVars>>

\* The submit listener up to its await.  A form whose submit button is
\* disabled is not submitted by the browser (neither by a click on the button
\* nor by Enter in an input), hence the guard.
submitHandler(form) ==
    /\ ~submitDisabled[form]
    /\ fieldClass' = validatedClass(form)
    /\ IF ~allValid(form)
       THEN /\ toastPending < MaxToasts
            /\ showToast("Please fill in all required fields correctly")
            /\ UNCHANGED formVars
       ELSE /\ LeadRoom
            /\ submitLoading' = [submitLoading EXCEPT ![form] = TRUE]
            /\ submitDisabled' = [submitDisabled EXCEPT ![form] = TRUE]
            /\ delayPending' = [delayPending EXCEPT ![form] = Append(@, formData(form))]
            /\ UNCHANGED <<formSubmitted, successShow, resetPending, toastVars>>
    /\ UNCHANGED <<sessionVars, widgetVars, now, events, leads, trackVars, modalVars,
                   fieldValue, emailVars, validVars>>

\* Mutant of submitContinuation: the lead is stored by saveLead and by push
submitContinuationTwice(form, extra) ==
    /\ delayPending[form] # <<>>
    /\ leads' = LET lead == [type |-> form, timestamp |-> now,
                             data |-> Head(delayPending[form])]
                IN  saveLead(saveLead(leads, lead), lead)
    /\ events' = trackEvent(events, "form_submitted", extra)
    /\ formSubmitted' = [formSubmitted EXCEPT ![form] = TRUE]
    /\ successShow' = [successShow EXCEPT ![form] = TRUE]
    /\ delayPending' = [delayPending EXCEPT ![form] = Tail(@)]
    /\ resetPending' = [resetPending EXCEPT ![form] = @ + 1]
    /\ UNCHANGED <<sessionVars, widgetVars, now, trackVars, modalVars, fieldVars,
                   submitLoading, submitDisabled, emailVars, toastVars, validVars>>

\* Mutant of autoReset: the submit button keeps class "loading"
autoResetKeepsLoading(form) ==
    /\ resetPending[form] > 0
    /\ SetModalState(closeModal(ModalState, form))
    /\ formSubmitted' = [formSubmitted EXCEPT ![form] = FALSE]
    /\ successShow' = [successShow EXCEPT ![form] = FALSE]
    /\ fieldValue' = [id \in DOMAIN fieldValue |->
                        IF id \in RequiredInputs(form) THEN Empty ELSE fieldValue[id]]
    /\ submitDisabled' = [submitDisabled EXCEPT ![form] = FALSE]
    /\ fieldClass' = [id \in DOMAIN fieldClass |->
                        IF id \in FormInputs THEN "none" ELSE fieldClass[id]]
    /\ resetPending' = [resetPending EXCEPT ![form] = @ - 1]
    /\ UNCHANGED <<sessionVars, widgetVars, now, leads, trackVars, delayPending, submitLoading,
                   emailVars, toastVars, validVars>>

\* The continuation after `await new Promise(resolve => setTimeout(resolve, 1500))`
submitContinuation(form, extra) ==
    /\ delayPending[form] # <<>>
    /\ leads' = saveLead(leads, [type |-> form, timestamp |-> now,
                                 data |-> Head(delayPending[form])])
    /\ events' = trackEvent(events, "form_submitted", extra)
    /\ formSubmitted' = [formSubmitted EXCEPT ![form] = TRUE]
    /\ successShow' = [successShow EXCEPT ![form] = TRUE]
    /\ delayPending' = [delayPending EXCEPT ![form] = Tail(@)]
    /\ resetPending' = [resetPending EXCEPT ![form] = @ + 1]
    /\ UNCHANGED <<sessionVars, widgetVars, now, trackVars, modalVars, fieldVars,
                   submitLoading, submitDisabled, emailVars, toastVars, validVars>>

autoResetEnablesAll(form) ==
    /\ resetPending[form] > 0
    /\ SetModalState(closeModal(ModalState, form))
    /\ formSubmitted' = [formSubmitted EXCEPT ![form] = FALSE]
    /\ successShow' = [successShow EXCEPT ![form] = FALSE]
    /\ fieldValue' = [id \in DOMAIN fieldValue |->
                        IF id \in RequiredInputs(form) THEN Empty ELSE fieldValue[id]]
    /\ submitLoading' = [submitLoading EXCEPT ![form] = FALSE]
    /\ submitDisabled' = [f \in Forms |-> FALSE]
    /\ fieldClass' = [id \in DOMAIN fieldClass |->
                        IF id \in FormInputs THEN "none" ELSE fieldClass[id]]
    /\ resetPending' = [resetPending EXCEPT ![form] = @ - 1]
    /\ UNCHANGED <<sessionVars, widgetVars, now, leads, trackVars, delayPending,
                   emailVars, toastVars, validVars>>

\* The 3000 ms timer of the continuation
autoReset(form) ==
    /\ resetPending[form] > 0
    /\ SetModalState(closeModal(ModalState, form))
    /\ formSubmitted' = [formSubmitted EXCEPT ![form] = FALSE]
    /\ successShow' = [successShow EXCEPT ![form] = FALSE]
    /\ fieldValue' = [id \in DOMAIN fieldValue |->
                        IF id \in RequiredInputs(form) THEN Empty ELSE fieldValue[id]]
    /\ submitLoading' = [submitLoading EXCEPT ![form] = FALSE]
    /\ submitDisabled' = [submitDisabled EXCEPT ![form] = FALSE]
    /\ fieldClass' = [id \in DOMAIN fieldClass |->
                        IF id \in FormInputs THEN "none" ELSE fieldClass[id]]
    /\ resetPending' = [resetPending EXCEPT ![form] = @ - 1]
    /\ UNCHANGED <<sessionVars, widgetVars, now, leads, trackVars, delayPending,
                   emailVars, toastVars, validVars>>

EnterpriseSubmit == submitHandler("enterprise")

EnterpriseDelayDone ==
    submitContinuation("enterprise", [formType |-> "enterprise", variant |-> variant])

EnterpriseAutoReset == autoReset("enterprise")

CarrierSubmit == submitHandler("carrier")

CarrierDelayDone == submitContinuation("carrier", [formType |-> "carrier"])

CarrierAutoReset == autoReset("carrier")

----------------------------------------------------------------------------
(* Email capture form *)

\* The submit listener of emailCaptureForm.  A form that is not displayed
\* cannot be submitted by the user, hence the guard.
EmailSubmit ==
    LET email == trim(fieldValue["quickEmail"])
    IN  /\ emailDisplay # "none"
        /\ IF ~emailRegexTest(email)
           THEN /\ toastPending < MaxToasts
                /\ showToast("Please enter a valid email")
                /\ UNCHANGED <<leads, events, emailVars, successShow>>
           ELSE /\ LeadRoom
                /\ leads' = saveLead(leads, [type |-> "email", timestamp |-> now,
                                             data |-> [email |-> email]])
                /\ events' = trackEvent(events, "email_captured", [email |-> email])
                /\ emailDisplay' = "none"
                /\ successShow' = [successShow EXCEPT !["email"] = TRUE]
                /\ emailPending' = emailPending + 1
                /\ UNCHANGED toastVars
        /\ UNCHANGED <<sessionVars, widgetVars, now, trackVars, modalVars, fieldVars,
                       submitLoading, submitDisabled, formSubmitted, delayPending,
                       resetPending, validVars>>

\* The 5000 ms timer of the email submit listener
EmailAutoReset ==
    /\ emailPending > 0
    /\ emailDisplay' = "flex"
    /\ successShow' = [successShow EXCEPT !["email"] = FALSE]
    /\ fieldValue' = [fieldValue EXCEPT !["quickEmail"] = Empty]
    /\ emailPending' = emailPending - 1
    /\ UNCHANGED <<sessionVars, widgetVars, now, events, leads, trackVars, modalVars,
                   fieldClass, submitLoading, submitDisabled, formSubmitted,
                   delayPending, resetPending, toastVars, validVars>>

----------------------------------------------------------------------------
(* Countdown timer *)

\* 6 days 23 h 45 min 12 s, in ms
CountdownSpan ==
    6 * 24 * 60 * 60 * 1000 + 23 * 60 * 60 * 1000 + 45 * 60 * 1000 + 12 * 1000

Expired == <<"Expired">>

\* the template literal `${d}d ${h}h ${m}m ${s}s`
countdownFormat(d, h, m, s) == <<d, "d ", h, "h ", m, "m ", s, "s">>

updateCountdownStrict ==
    LET diff == endTime - now
    IN  IF diff < 0
        THEN Expired
        ELSE countdownFormat(diff \div (1000 * 60 * 60 * 24),
                             (diff \div (1000 * 60 * 60)) % 24,
                             (diff \div (1000 * 60)) % 60,
                             (diff \div 1000) % 60)

\* What updateCountdown writes to countdownEl.textContent.  diff is a
\* positive integer below 2^53 where the quotients are taken, so
\* Math.floor((diff / k) % n) is the integer quotient diff \div k modulo n.
updateCountdown ==
    LET diff == endTime - now
    IN  IF diff <= 0
        THEN Expired
        ELSE LET d == diff \div (1000 * 60 * 60 * 24)
                 h == (diff \div (1000 * 60 * 60)) % 24
                 m == (diff \div (1000 * 60)) % 60
                 s == (diff \div 1000) % 60
             IN  countdownFormat(d, h, m, s)

\* remaining times (ms) at which the clock is sampled, and times past the end
Remaining ==
    {d * 86400000 + h * 3600000 + m * 60000 + s * 1000 + ms :
        d \in {0, 1, 6}, h \in {0, 23}, m \in {0, 59}, s \in {0, 1, 59},
        ms \in {0, 999}}

Overdue == {-1, -1000}

\* time passes on the page that shows the countdown
AdvanceCountdown ==
    /\ \E r \in Remaining \cup Overdue :
        /\ endTime - r > now
        /\ now' = endTime - r
    /\ UNCHANGED <<sessionVars, widgetVars, events, leads, trackVars,
                   modalVars, fieldVars, formVars, emailVars, toastVars,
                   validVars>>

\* setInterval(updateCountdown, 1000)
CountdownTick ==
    /\ countdownText' = updateCountdown
    /\ UNCHANGED <<sessionVars, endTime, carouselVars, chatVars, now, events,
                   leads, trackVars, modalVars, fieldVars, formVars, emailVars,
                   toastVars, validVars>>

----------------------------------------------------------------------------
(* Testimonials carousel *)

\* most testimonial cards a page is explored with
MaxCards == 3

\* the % operator of JavaScript: the result takes the sign of the dividend
jsRemainder(a, n) == IF a >= 0 THEN a % n ELSE -((-a) % n)

nextTestimonial(i, n) == jsRemainder(i + 1, n)

prevTestimonialNoWrap(i, n) == jsRemainder(i - 1, n)

prevTestimonial(i, n) == jsRemainder(i - 1 + n, n)

carouselFrame ==
    <<sessionVars, countdownVars, cardCount, chatVars, now, events, leads,
      trackVars, modalVars, fieldVars, formVars, emailVars, toastVars,
      validVars>>

\* setInterval(..., 6000)
TestimonialTick ==
    /\ cardCount > 0
    /\ testimonialIndex' = nextTestimonial(testimonialIndex, cardCount)
    /\ UNCHANGED carouselFrame

PrevTestimonialClick ==
    /\ cardCount > 0
    /\ testimonialIndex' = prevTestimonial(testimonialIndex, cardCount)
    /\ UNCHANGED carouselFrame

NextTestimonialClick ==
    /\ cardCount > 0
    /\ testimonialIndex' = nextTestimonial(testimonialIndex, cardCount)
    /\ UNCHANGED carouselFrame

----------------------------------------------------------------------------
(* Chat widget *)

Greeting == <<"Hi! How can we help you today?">>
QuickReply ==
    <<"Thanks for reaching out! An Axle team member will be with you shortly.">>
MessageReply == <<"Thanks for your message! We will respond shortly.">>

\* what the visitor may have typed into chatInput
ChatTyped == {Empty, <<" ">>, <<"a">>, <<" ", "a">>}

\* the elements inside chatQuickActions a click can land on
QuickTargets == [isAction : BOOLEAN, text : {<<"a", "a">>}, action : {"demo"}]

addChatMessage(log, text, sender) ==
    Append(log, [text |-> text, sender |-> sender])

chatFrame ==
    <<sessionVars, countdownVars, carouselVars, now, leads, trackVars,
      modalVars, fieldVars, formVars, emailVars, toastVars, validVars>>

\* chatBubble click: classList.toggle('open'), then the greeting is
\* scheduled when the window is open and chatMessages has no child yet
ChatBubbleClick ==
    /\ chatOpen \/ Room
    /\ chatOpen' = ~chatOpen
    /\ IF chatOpen'
       THEN /\ events' = trackEvent(events, "chat_opened", NoData)
            /\ greetPending' =
                   IF Len(chatLog) = 0 THEN greetPending + 1 ELSE greetPending
       ELSE UNCHANGED <<events, greetPending>>
    /\ UNCHANGED <<chatLog, chatInputValue, replyPending>>
    /\ UNCHANGED chatFrame

ChatCloseClick ==
    /\ chatOpen' = FALSE
    /\ UNCHANGED <<chatLog, chatInputValue, greetPending, replyPending, events>>
    /\ UNCHANGED chatFrame

\* the 300 ms timer of the greeting
GreetingTimer ==
    /\ greetPending > 0
    /\ greetPending' = greetPending - 1
    /\ chatLog' = addChatMessage(chatLog, Greeting, "bot")
    /\ UNCHANGED <<chatOpen, chatInputValue, replyPending, events>>
    /\ UNCHANGED chatFrame

ChatQuickClick ==
    /\ \E target \in QuickTargets :
        IF target.isAction
        THEN /\ Room
             /\ chatLog' = addChatMessage(chatLog, target.text, "user")
             /\ replyPending' = Append(replyPending, QuickReply)
             /\ events' = trackEvent(events, "chat_quick_action",
                                      [action |-> target.action])
        ELSE UNCHANGED <<chatLog, replyPending, events>>
    /\ UNCHANGED <<chatOpen, chatInputValue, greetPending>>
    /\ UNCHANGED chatFrame

\* the visitor edits chatInput
ChatInput ==
    /\ \E v \in ChatTyped : chatInputValue' = v
    /\ UNCHANGED <<chatOpen, chatLog, greetPending, replyPending, events>>
    /\ UNCHANGED chatFrame

chatSubmitNoTrim ==
    /\ IF chatInputValue = Empty
       THEN UNCHANGED <<chatLog, chatInputValue, replyPending, events>>
       ELSE /\ Room
            /\ chatLog' = addChatMessage(chatLog, chatInputValue, "user")
            /\ chatInputValue' = Empty
            /\ replyPending' = Append(replyPending, MessageReply)
            /\ events' = trackEvent(events, "chat_message_sent", NoData)
    /\ UNCHANGED <<chatOpen, greetPending>>
    /\ UNCHANGED chatFrame

\* chatForm submit
ChatSubmit ==
    /\ LET msg == trim(chatInputValue)
       IN  IF msg = Empty
           THEN UNCHANGED <<chatLog, chatInputValue, replyPending, events>>
           ELSE /\ Room
                /\ chatLog' = addChatMessage(chatLog, msg, "user")
                /\ chatInputValue' = Empty
                /\ replyPending' = Append(replyPending, MessageReply)
                /\ events' = trackEvent(events, "chat_message_sent", NoData)
    /\ UNCHANGED <<chatOpen, greetPending>>
    /\ UNCHANGED chatFrame

\* an 800 ms timer of a bot reply; equal delays fire in scheduling order
ReplyTimer ==
    /\ replyPending # <<>>
    /\ chatLog' = addChatMessage(chatLog, Head(replyPending), "bot")
    /\ replyPending' = Tail(replyPending)
    /\ UNCHANGED <<chatOpen, chatInputValue, greetPending, events>>
    /\ UNCHANGED chatFrame

----------------------------------------------------------------------------
(* Every call of trackEvent in the script: the name and the data it passes *)

\* calls are explored while the event log is no longer than this
MaxCalls == 2

\* values read from the page (an event type, a link target, a tab, a
\* question, a quick action, an email address)
PageText == {"x"}

CallSites ==
    {[eventName |-> "video_loaded", data |-> NoData],
     [eventName |-> "banner_dismissed", data |-> NoData],
     [eventName |-> "activity_feed_dismissed", data |-> NoData],
     [eventName |-> "chat_opened", data |-> NoData],
     [eventName |-> "chat_message_sent", data |-> NoData],
     [eventName |-> "cta_clicked",
      data |-> [button |-> "enterprise_hero", variant |-> variant]],
     [eventName |-> "form_submitted",
      data |-> [formType |-> "enterprise", variant |-> variant]],
     [eventName |-> "form_submitted", data |-> [formType |-> "carrier"]]}
    \cup {[eventName |-> "cta_clicked", data |-> [button |-> b]] :
            b \in {"header_signup", "carrier_hero", "fab", "final_enterprise",
                   "final_carrier"}}
    \cup {[eventName |-> "scroll_depth", data |-> [depth |-> ScrollMilestones[i]]] :
            i \in {1}}
    \cup {[eventName |-> "time_on_page", data |-> [seconds |-> TimeMilestones[i]]] :
            i \in {1}}
    \cup {[eventName |-> n, data |-> [modal |-> "choice"]] :
            n \in {"modal_opened", "modal_closed"}}
    \cup {[eventName |-> "video_error", data |-> [error |-> t]] : t \in PageText}
    \cup {[eventName |-> "nav_click", data |-> [target |-> t]] : t \in PageText}
    \cup {[eventName |-> "screenshot_tab_clicked", data |-> [tab |-> t]] :
            t \in PageText}
    \cup {[eventName |-> "faq_opened", data |-> [question |-> t]] : t \in PageText}
    \cup {[eventName |-> "chat_quick_action", data |-> [action |-> t]] :
            t \in PageText}
    \cup {[eventName |-> "email_captured", data |-> [email |-> t]] : t \in PageText}

\* one call of trackEvent
TrackCall(site) ==
    /\ Len(events) <= MaxCalls
    /\ events' = trackEvent(events, site.eventName, site.data)
    /\ UNCHANGED <<sessionVars, widgetVars, now, leads, trackVars, modalVars,
                   fieldVars, formVars, emailVars, toastVars, validVars>>

----------------------------------------------------------------------------
(* Validator runs: validateField on an arbitrary input element *)

NotRun == [isValid |-> FALSE, errorMsg |-> MsgNone, cls |-> "not run"]

MinLengths == {NoMinLength, 2}

InputElements ==
    [value : StringsUpTo(MaxLen), type : {"text", "email"}, required : BOOLEAN,
     minlength : MinLengths, idName : BOOLEAN, idDOT : BOOLEAN]

IdleElement ==
    [value |-> Empty, type |-> "text", required |-> FALSE,
     minlength |-> NoMinLength, idName |-> FALSE, idDOT |-> FALSE]

Validate ==
    /\ vResult = NotRun
    /\ vResult' = validateField(vInput)
    /\ UNCHANGED <<sessionVars, widgetVars, now, events, leads, trackVars, modalVars,
                   fieldVars, formVars, emailVars, toastVars, vInput>>

----------------------------------------------------------------------------
(* The state after the script has run at page load *)

InitSession(draws) ==
    \E r \in draws : \E t \in LoadTimes : \E suffix \in RandomSuffixes :
        /\ sessionId = generateSessionId(t, suffix)
        /\ variant = pickVariant(r)
        /\ startTime = t
        /\ now = t

InitPage ==
    /\ events = trackEvent(<<>>, "page_view", NoData)
    /\ leads = <<>>
    /\ scrollDepths = {}
    /\ timeMilestones = {}
    /\ lastScrollTop = 0
    /\ modalActive = {}
    /\ bodyOverflow = ""
    /\ fieldValue = [id \in FormInputs \cup {"quickEmail"} |-> Empty]
    /\ fieldClass = [id \in FormInputs |-> "none"]
    /\ submitLoading = [f \in Forms |-> FALSE]
    /\ submitDisabled = [f \in Forms |-> FALSE]
    /\ formSubmitted = [f \in Forms |-> FALSE]
    /\ successShow = [f \in Forms \cup {"email"} |-> FALSE]
    /\ delayPending = [f \in Forms |-> <<>>]
    /\ resetPending = [f \in Forms |-> 0]
    /\ emailDisplay = ""
    /\ emailPending = 0
    /\ toastShow = FALSE
    /\ toastPending = 0

\* the widgets of a page that shows `cards` testimonial cards: the countdown
\* has been written once, the first card is shown, the chat is empty
InitWidgets(cards) ==
    /\ endTime = now + CountdownSpan
    /\ countdownText = updateCountdown
    /\ cardCount \in cards
    /\ testimonialIndex = 0
    /\ chatOpen = FALSE
    /\ chatLog = <<>>
    /\ chatInputValue = Empty
    /\ greetPending = 0
    /\ replyPending = <<>>

Init ==
    /\ InitSession(RandomDraws)
    /\ InitPage
    /\ InitWidgets({MaxCards})
    /\ vInput = IdleElement
    /\ vResult = NotRun

InitValidate ==
    /\ InitSession({0})
    /\ InitPage
    /\ InitWidgets({MaxCards})
    /\ vInput \in InputElements
    /\ vResult = NotRun

----------------------------------------------------------------------------
(* Specifications *)

\* scroll and time-on-page tracking
NextTrack ==
    \/ Advance
    \/ Scroll
    \/ TimeTick

SpecTrack == Init /\ [][NextTrack]_vars

\* the modal controller
NextModal ==
    \/ \E key \in ModalIds : BackdropClick(key)
    \/ \E key \in ModalIds : CloseBtnClick(key)
    \/ KeydownEscape
    \/ HeaderSignupClick
    \/ EnterpriseCtaClick
    \/ CarrierCtaClick
    \/ ChoiceEnterpriseClick
    \/ ChoiceCarrierClick
    \/ FabClick
    \/ FinalEnterpriseClick
    \/ FinalCarrierClick

\* the enterprise submission flow, whose auto-reset closes a modal
NextEnterpriseFlow ==
    \/ \E id \in EntInputs : Input(id)
    \/ EnterpriseSubmit
    \/ EnterpriseDelayDone
    \/ EnterpriseAutoReset

SpecModal == Init /\ [][NextModal \/ NextEnterpriseFlow]_vars

\* the three submission flows
NextForm ==
    \/ \E id \in FormInputs : Input(id)
    \/ \E id \in FormInputs : Blur(id)
    \/ QuickEmailInput
    \/ ToastHide
    \/ EnterpriseSubmit
    \/ EnterpriseDelayDone
    \/ EnterpriseAutoReset
    \/ CarrierSubmit
    \/ CarrierDelayDone
    \/ CarrierAutoReset
    \/ EmailSubmit
    \/ EmailAutoReset

SpecForm == Init /\ [][NextForm]_vars

\* Timers that are scheduled fire: the browser runs every pending callback
SpecFormFair ==
    /\ SpecForm
    /\ WF_vars(EnterpriseDelayDone)
    /\ WF_vars(EnterpriseAutoReset)
    /\ WF_vars(CarrierDelayDone)
    /\ WF_vars(CarrierAutoReset)
    /\ WF_vars(EmailAutoReset)
    /\ WF_vars(ToastHide)

SpecValidate == InitValidate /\ [][Validate]_vars

\* a page with any number of testimonial cards
InitCards ==
    /\ InitSession(RandomDraws)
    /\ InitPage
    /\ InitWidgets(0..MaxCards)
    /\ vInput = IdleElement
    /\ vResult = NotRun

\* the event log and the lead list while time passes
NextLog ==
    \/ Advance
    \/ TimeTick
    \/ HeaderSignupClick
    \/ QuickEmailInput
    \/ EmailSubmit
    \/ EmailAutoReset
    \/ ToastHide

SpecLog == Init /\ [][NextLog]_vars

\* the calls of trackEvent
NextCalls == \E site \in CallSites : TrackCall(site)

SpecCalls == Init /\ [][NextCalls]_vars

\* the countdown
NextCountdown ==
    \/ AdvanceCountdown
    \/ CountdownTick

SpecCountdown == Init /\ [][NextCountdown]_vars

\* the testimonials carousel and the chat widget
NextCarousel ==
    \/ TestimonialTick
    \/ PrevTestimonialClick
    \/ NextTestimonialClick

NextChat ==
    \/ ChatBubbleClick
    \/ ChatCloseClick
    \/ GreetingTimer
    \/ ChatQuickClick
    \/ ChatInput
    \/ ChatSubmit
    \/ ReplyTimer

SpecWidgets == InitCards /\ [][NextCarousel \/ NextChat]_vars

\* the chat widget alone
SpecChat == Init /\ [][NextChat]_vars

\* Timers that are scheduled fire
SpecChatFair ==
    /\ SpecChat
    /\ WF_vars(GreetingTimer)
    /\ WF_vars(ReplyTimer)

----------------------------------------------------------------------------
(* Properties: scroll depth and time on page *)

\* the positions of the log that hold the given milestone event
ScrollDepthAt(m) ==
    {i \in 1..Len(events) : events[i].event = "scroll_depth" /\ events[i].depth = m}

TimeOnPageAt(m) ==
    {i \in 1..Len(events) : events[i].event = "time_on_page" /\ events[i].seconds = m}

\* C1: under every sequence of scroll events and interval ticks, the log holds
\* at most one scroll_depth event per depth in {25,50,75,100} and at most one
\* time_on_page event per value in {30,60,120}.
C1_MilestoneAtMostOnce ==
    /\ \A m \in {25, 50, 75, 100} : Cardinality(ScrollDepthAt(m)) <= 1
    /\ \A m \in {30, 60, 120} : Cardinality(TimeOnPageAt(m)) <= 1

\* Two scroll events and an interval tick between them: depth 25 fired, then a
\* time milestone, then a later scroll that passed 25 again and fired only 50.
C1_Witness ==
    \E i \in ScrollDepthAt(25) : \E k \in ScrollDepthAt(50) :
        \E j \in TimeOnPageAt(30) : i < j /\ j < k

----------------------------------------------------------------------------
(* Properties: session *)

\* C10: the variant is one of A and B, and no handler or timer callback
\* changes sessionId, variant or startTime.
C10_SessionImmutable ==
    /\ [](variant \in {"A", "B"})
    /\ [][sessionId' = sessionId /\ variant' = variant /\ startTime' = startTime]_vars

\* Click handlers, a submission and its timers have run in a session of variant B.
C10_Witness ==
    /\ variant = "B"
    /\ leads # <<>>
    /\ \E i \in 1..Len(events) : events[i].event = "cta_clicked"
    /\ \E i \in 1..Len(events) : events[i].event = "modal_closed"
    /\ sessionId = generateSessionId(startTime, "k3x9q0zr1")

----------------------------------------------------------------------------
(* Properties: modals *)

IsModalEvent(e, name, key) == e.event = name /\ e.modal = key

\* the step appended exactly the events modal_closed for the ids in keys, one
\* each, and left the earlier log in place
AppendedClosed(keys) ==
    /\ Len(events') = Len(events) + Cardinality(keys)
    /\ SubSeq(events', 1, Len(events)) = events
    /\ \A key \in keys :
          Cardinality({i \in (Len(events) + 1)..Len(events') :
                          IsModalEvent(events'[i], "modal_closed", key)}) = 1

\* C4 as the claim states it: at most one of the three modals is open in
\* every reachable state.
C4_AtMostOneOpen == Cardinality(modalActive) <= 1

\* a click that opens a modal, made while a modal it does not close is open
OpeningClickBesideOpenModal ==
    \/ /\ modalActive # {}
       /\ \/ HeaderSignupClick
          \/ EnterpriseCtaClick
          \/ CarrierCtaClick
          \/ FabClick
          \/ FinalEnterpriseClick
          \/ FinalCarrierClick
    \/ /\ modalActive \ {"choice"} # {}
       /\ \/ ChoiceEnterpriseClick
          \/ ChoiceCarrierClick

\* C4 (amended): openModal does not close the other modals, so at most one
\* modal is open only along runs in which a CTA, FAB or final-CTA click is made
\* while no modal is open and a choice button is clicked while no modal other
\* than the choice modal is open: every other step (such clicks, close-button
\* and backdrop clicks, Escape, the auto-close timer) keeps at most one open.
C4_OneOpenUnlessOpenedBeside ==
    [][(C4_AtMostOneOpen /\ ~OpeningClickBesideOpenModal) => C4_AtMostOneOpen']_vars

\* A choice button has replaced the open choice modal by the enterprise modal.
C4_Witness ==
    /\ modalActive = {"enterprise"}
    /\ \E i \in 1..(Len(events) - 1) :
          /\ IsModalEvent(events[i], "modal_closed", "choice")
          /\ IsModalEvent(events[i + 1], "modal_opened", "enterprise")
    /\ \E i \in 1..Len(events) : IsModalEvent(events[i], "modal_opened", "choice")

\* C5: a close-button or backdrop click on a modal that is already closed
\* (closeModal(id) on a closed modal) leaves the leads and the open/closed
\* status of every modal unchanged and appends exactly one modal_closed event
\* for that id.
C5_CloseClosedModal ==
    [][\A key \in ModalIds :
          ((BackdropClick(key) \/ CloseBtnClick(key)) /\ key \notin modalActive)
          => /\ leads' = leads
             /\ modalActive' = modalActive
             /\ AppendedClosed({key})]_vars

\* The enterprise modal was closed twice in a row while the carrier modal stays open.
C5_Witness ==
    /\ modalActive = {"carrier"}
    /\ \E i \in 1..(Len(events) - 1) :
          /\ IsModalEvent(events[i], "modal_closed", "enterprise")
          /\ IsModalEvent(events[i + 1], "modal_closed", "enterprise")

\* C6 as the claim states it: after an Escape press and after a backdrop
\* click alike, no modal is open and one modal_closed event per modal id has
\* been appended.
C6_EscapeAndBackdropCloseAll ==
    [][(KeydownEscape \/ \E key \in ModalIds : BackdropClick(key))
       => (modalActive' = {} /\ AppendedClosed(ModalIds))]_vars

\* C6 (amended): an Escape press closes every modal (no modal is open
\* afterwards and one modal_closed event per modal id is appended); a backdrop
\* click closes only the modal the backdrop belongs to (the other modals keep
\* their status and one modal_closed event, for that id, is appended).
C6_EscapeClosesAllBackdropOne ==
    [][/\ KeydownEscape => (modalActive' = {} /\ AppendedClosed(ModalIds))
       /\ \A key \in ModalIds :
             BackdropClick(key) => /\ modalActive' = modalActive \ {key}
                                   /\ AppendedClosed({key})]_vars

\* Escape was pressed while the enterprise modal was open.
C6_Witness ==
    /\ modalActive = {}
    /\ Len(events) >= 4
    /\ \E i \in 1..(Len(events) - 3) :
          /\ IsModalEvent(events[i], "modal_opened", "enterprise")
          /\ IsModalEvent(events[i + 1], "modal_closed", "choice")
          /\ IsModalEvent(events[i + 2], "modal_closed", "enterprise")
          /\ IsModalEvent(events[i + 3], "modal_closed", "carrier")

----------------------------------------------------------------------------
(* Properties: submission flows *)

\* The state of a form's flow, read off the page: the form carries class
\* "submitted" while its success panel is shown, and its submit button carries
\* class "loading" from an accepted submit on.
FormPhase(form) ==
    IF formSubmitted[form] THEN "submitted"
    ELSE IF submitLoading[form] THEN "submitting"
    ELSE "idle"

FormIdle(form) ==
    /\ ~submitLoading[form]
    /\ ~submitDisabled[form]
    /\ ~formSubmitted[form]
    /\ ~successShow[form]

FormCleared(form) == \A id \in RequiredInputs(form) : fieldValue[id] = Empty

EmailPhase == IF emailDisplay = "none" THEN "submitted" ELSE "idle"

EmailIdle == emailDisplay # "none" /\ ~successShow["email"]

EmailValid == emailRegexTest(trim(fieldValue["quickEmail"]))

LeadsOfType(list, type) == Cardinality({i \in 1..Len(list) : list[i].type = type})

SubmittedOfType(log, type) ==
    Cardinality({i \in 1..Len(log) :
                    log[i].event = "form_submitted" /\ log[i].formType = type})

\* C2: an enterprise submit whose required inputs all pass validation takes
\* the form from idle to submitting; from there the form goes to submitted
\* and back to idle, and over that cycle exactly one Lead of type enterprise
\* and exactly one form_submitted event of formType enterprise are added (both
\* by the step that shows the success state); no other step of any handler
\* or timer adds either.
C2_OneLeadPerEnterpriseSubmit ==
    [][LET p == FormPhase("enterprise")
           q == FormPhase("enterprise")'
           dLeads == LeadsOfType(leads', "enterprise") - LeadsOfType(leads, "enterprise")
           dEvents == SubmittedOfType(events', "enterprise")
                        - SubmittedOfType(events, "enterprise")
       IN  /\ (EnterpriseSubmit /\ allValid("enterprise"))
                 => (p = "idle" /\ q = "submitting")
           /\ (p = "idle" /\ q # "idle")
                 => (EnterpriseSubmit /\ allValid("enterprise"))
           /\ <<p, q>> \in {<<"idle", "idle">>, <<"idle", "submitting">>,
                            <<"submitting", "submitting">>, <<"submitting", "submitted">>,
                            <<"submitted", "submitted">>, <<"submitted", "idle">>}
           /\ IF p = "submitting" /\ q = "submitted"
              THEN dLeads = 1 /\ dEvents = 1
              ELSE dLeads = 0 /\ dEvents = 0]_vars

\* One enterprise submission ran its whole cycle, with an email capture
\* between its completion and its auto-reset.
C2_Witness ==
    /\ FormIdle("enterprise")
    /\ LeadsOfType(leads, "enterprise") = 1
    /\ SubmittedOfType(events, "enterprise") = 1
    /\ \E i \in 1..Len(events) : \E j \in 1..Len(events) : \E k \in 1..Len(events) :
          /\ i < j /\ j < k
          /\ events[i].event = "form_submitted"
          /\ events[j].event = "email_captured"
          /\ IsModalEvent(events[k], "modal_closed", "enterprise")

\* what a blocked submit leaves alone
NothingRecorded ==
    /\ leads' = leads
    /\ events' = events
    /\ delayPending' = delayPending
    /\ resetPending' = resetPending
    /\ emailPending' = emailPending

\* C3: a submit that fails validation (enterprise or carrier form with an
\* invalid required input, email form with a value that is no email) appends
\* no Lead and no event, schedules no delayed completion or reset, and leaves
\* the form idle with its submit button enabled.
C3_InvalidSubmitBlocked ==
    [][/\ \A form \in Forms :
             (submitHandler(form) /\ ~allValid(form))
             => (NothingRecorded /\ FormIdle(form)')
       /\ (EmailSubmit /\ ~EmailValid) => (NothingRecorded /\ EmailIdle')]_vars

\* An enterprise submit was refused with a valid name and no email: the
\* inputs carry their markers, the toast is up, nothing was recorded.
C3_Witness ==
    /\ toastShow
    /\ fieldValue["entName"] = <<"a", "a">>
    /\ fieldValue["entEmail"] = Empty
    /\ fieldClass["entName"] = "valid"
    /\ fieldClass["entEmail"] = "invalid"
    /\ fieldClass["carDOT"] = "none"
    /\ leads = <<>>
    /\ Len(events) = 1
    /\ FormIdle("enterprise")

\* C9: an accepted submit puts the enterprise or carrier form into submitting
\* and the email form into submitted; a form that is submitting eventually is
\* submitted, and a form that is submitted eventually is idle again with its
\* inputs cleared, provided the scheduled timers fire.
C9_SubmissionCompletes ==
    /\ [][/\ \A form \in Forms :
                (submitHandler(form) /\ allValid(form))
                => FormPhase(form)' = "submitting"
          /\ (EmailSubmit /\ EmailValid) => EmailPhase' = "submitted"]_vars
    /\ \A form \in Forms :
          (FormPhase(form) = "submitting") ~> (FormPhase(form) = "submitted")
    /\ \A form \in Forms :
          (FormPhase(form) = "submitted") ~> (FormIdle(form) /\ FormCleared(form))
    /\ (EmailPhase = "submitted") ~> (EmailIdle /\ fieldValue["quickEmail"] = Empty)

\* The enterprise form and the email form have each completed a submission and are idle again.
C9_Witness ==
    /\ LeadsOfType(leads, "enterprise") = 1
    /\ LeadsOfType(leads, "email") = 1
    /\ FormIdle("enterprise") /\ FormCleared("enterprise")
    /\ EmailIdle /\ emailDisplay = "flex"
    /\ \E i \in 1..Len(events) : IsModalEvent(events[i], "modal_closed", "enterprise")

----------------------------------------------------------------------------
(* Properties: validateField *)

Rules == <<"required", "email", "minlength", "name", "numeric">>

\* the input's trimmed value fails the rule (a rule that does not apply to the
\* input is not failed)
FailsRule(input, rule) ==
    LET value == trim(input.value)
    IN  CASE rule = "required" -> input.required /\ value = <<>>
          [] rule = "email" ->
                input.type = "email" /\ value # <<>> /\ ~emailRegexTest(value)
          [] rule = "minlength" ->
                input.minlength # NoMinLength /\ Len(value) < input.minlength
          [] rule = "name" -> input.idName /\ value # <<>> /\ ~nameRegexTest(value)
          [] rule = "numeric" ->
                input.idDOT /\ value # <<>> /\ ~numericRegexTest(value)

RuleMessage(input, rule) ==
    CASE rule = "required" -> MsgRequired
      [] rule = "email" -> MsgEmail
      [] rule = "minlength" -> MsgMinimum(input.minlength)
      [] rule = "name" -> MsgName
      [] rule = "numeric" -> MsgDOT

FailedRules(input) == {i \in 1..Len(Rules) : FailsRule(input, Rules[i])}

FirstFailed(input) ==
    CHOOSE i \in FailedRules(input) : \A j \in FailedRules(input) : i <= j

\* C7: validateField returns invalid with the message of the first rule, in
\* the order required, email, minlength, name, numeric, that the value fails,
\* and valid with an empty message only when the value fails no rule.
C7_FirstFailingRuleWins ==
    vResult # NotRun =>
        IF FailedRules(vInput) = {}
        THEN vResult.isValid /\ vResult.errorMsg = MsgNone
        ELSE /\ ~vResult.isValid
             /\ vResult.errorMsg = RuleMessage(vInput, Rules[FirstFailed(vInput)])

HasDigit(s) == \E i \in 1..Len(s) : s[i] \in Digits

\* C8: validateField rejects every name input whose non-empty value contains
\* a digit, whatever its required and minlength attributes.
C8_NameWithDigitRejected ==
    (vResult # NotRun /\ vInput.idName /\ HasDigit(trim(vInput.value)))
        => ~vResult.isValid

----------------------------------------------------------------------------
(* Properties: the event log and the lead list *)

IsPrefix(s, t) == Len(s) <= Len(t) /\ \A i \in 1..Len(s) : s[i] = t[i]

\* C11: the event log and the lead list are append-only (every handler and
\* timer callback leaves the entries already there unchanged and in place),
\* the first event is the page_view recorded at load, and the timestamps of
\* the events never decrease along the log.
C11_LogsAppendOnly ==
    /\ [](/\ Len(events) >= 1
          /\ events[1].event = "page_view"
          /\ \A i \in 1..(Len(events) - 1) :
                events[i].timestamp <= events[i + 1].timestamp)
    /\ [][IsPrefix(events, events') /\ IsPrefix(leads, leads')]_vars

C11_Witness ==
    /\ Len(events) >= 3
    /\ Len(leads) >= 1
    /\ events[1].timestamp < events[Len(events)].timestamp

----------------------------------------------------------------------------
(* Properties: countdown *)

\* C12: each countdown update shows "Expired" when the remaining time is zero
\* or negative and "0d 0h 0m 1s" when exactly 1000 ms remain; for every
\* positive remaining time the fields satisfy 0 <= h < 24, 0 <= m < 60,
\* 0 <= s < 60, d >= 0 and d*86400 + h*3600 + m*60 + s is the remaining time
\* in whole seconds.
C12_CountdownFields ==
    [][CountdownTick =>
        LET diff == endTime - now
            text == countdownText'
        IN  /\ diff <= 0 => text = <<"Expired">>
            /\ diff = 1000 => text = <<0, "d ", 0, "h ", 0, "m ", 1, "s">>
            /\ diff > 0 =>
                /\ Len(text) = 8
                /\ <<text[2], text[4], text[6], text[8]>> = <<"d ", "h ", "m ", "s">>
                /\ text[1] >= 0
                /\ text[3] \in 0..23
                /\ text[5] \in 0..59
                /\ text[7] \in 0..59
                /\ text[1] * 86400 + text[3] * 3600 + text[5] * 60 + text[7]
                       = diff \div 1000]_vars

C12_Witness ==
    /\ endTime - now = 1000
    /\ countdownText = <<0, "d ", 0, "h ", 0, "m ", 1, "s">>

----------------------------------------------------------------------------
(* Properties: the delay of a submission, leads and events by type *)

\* the submit listener of a form runs on inputs that all pass validation
ValidSubmit(form) ==
    CASE form = "enterprise" -> EnterpriseSubmit /\ allValid("enterprise")
      [] form = "carrier" -> CarrierSubmit /\ allValid("carrier")
      [] form = "email" -> EmailSubmit /\ EmailValid

CapturedEmails(log) ==
    Cardinality({i \in 1..Len(log) : log[i].event = "email_captured"})

\* C13 as stated: for each of the three forms the step of a valid submit
\* records neither a Lead nor an event (they are recorded only when the
\* simulated delay completes), and the enterprise and carrier forms are in
\* their submitting phase after it.
C13_NoFormRecordsAtSubmit ==
    [][/\ \A form \in Forms \cup {"email"} :
             ValidSubmit(form) => (leads' = leads /\ events' = events)
       /\ \A form \in Forms :
             ValidSubmit(form) => FormPhase(form)' = "submitting"]_vars

\* C13, amended: a valid submit of the enterprise or the carrier form puts
\* the form into its submitting phase and records nothing; the Lead and the
\* form_submitted event of that form are recorded only by the step that ends
\* the submitting phase (the completion of the delay).  The email form has
\* no delay: the step of a valid email submit itself records the Lead and
\* the email_captured event and shows the success state.
C13_DelayOnlyForModalForms ==
    [][/\ \A form \in Forms :
            /\ ValidSubmit(form) =>
                  /\ FormPhase(form)' = "submitting"
                  /\ leads' = leads
                  /\ events' = events
            /\ (\/ LeadsOfType(leads', form) # LeadsOfType(leads, form)
                \/ SubmittedOfType(events', form) # SubmittedOfType(events, form))
                  => /\ FormPhase(form) = "submitting"
                     /\ FormPhase(form)' = "submitted"
       /\ ValidSubmit("email") =>
            /\ EmailPhase = "idle"
            /\ EmailPhase' = "submitted"
            /\ LeadsOfType(leads', "email") = LeadsOfType(leads, "email") + 1
            /\ CapturedEmails(events') = CapturedEmails(events) + 1]_vars

\* an email capture and a carrier submission have both been recorded
C13_Witness ==
    /\ LeadsOfType(leads, "email") = 1
    /\ CapturedEmails(events) = 1
    /\ LeadsOfType(leads, "carrier") = 1
    /\ FormPhase("carrier") = "submitted"

----------------------------------------------------------------------------
(* Properties: the fields of an event *)

\* C14: every event in the log carries the sessionId and the variant of the
\* session, and each call of trackEvent appends one event that carries the
\* name passed and the clock reading of the call: at no call site do the
\* extra fields replace event, timestamp, variant or sessionId by another
\* value.
C14_EventCarriesSession ==
    /\ [](\A i \in 1..Len(events) :
            /\ events[i].sessionId = sessionId
            /\ events[i].variant = variant)
    /\ [][\A site \in CallSites :
            TrackCall(site) =>
                LET e == events'[Len(events')]
                IN  /\ Len(events') = Len(events) + 1
                    /\ e.event = site.eventName
                    /\ e.timestamp = now
                    /\ \A k \in DOMAIN site.data \ {"variant"} :
                          e[k] = site.data[k]]_vars

\* a call that passes a variant of its own has been logged in a session of
\* variant B
C14_Witness ==
    /\ variant = "B"
    /\ \E i \in 1..Len(events) :
          /\ events[i].event = "cta_clicked"
          /\ events[i].button = "enterprise_hero"
    /\ \E i \in 1..Len(events) : events[i].event = "form_submitted"

----------------------------------------------------------------------------
(* Properties: testimonials carousel *)

\* C16: with n > 0 testimonial cards the index stays in 0..n-1; the timer
\* and the next button move it to (index + 1) mod n, the previous button to
\* (index - 1) mod n, and previous followed by next (or next followed by
\* previous) restores the index.
C16_IndexInRange ==
    /\ [](cardCount > 0 =>
            /\ testimonialIndex \in 0..(cardCount - 1)
            /\ nextTestimonial(prevTestimonial(testimonialIndex, cardCount),
                               cardCount) = testimonialIndex
            /\ prevTestimonial(nextTestimonial(testimonialIndex, cardCount),
                               cardCount) = testimonialIndex)
    /\ [][/\ (TestimonialTick \/ NextTestimonialClick) =>
              testimonialIndex' = IF testimonialIndex = cardCount - 1
                                  THEN 0 ELSE testimonialIndex + 1
          /\ PrevTestimonialClick =>
              testimonialIndex' = IF testimonialIndex = 0
                                  THEN cardCount - 1 ELSE testimonialIndex - 1]_vars

\* the previous button has wrapped from the first card to the last of several
C16_Witness ==
    /\ cardCount > 1
    /\ testimonialIndex = cardCount - 1
    /\ chatLog # <<>>

----------------------------------------------------------------------------
(* Properties: chat widget *)

UserEntries(log) == Cardinality({i \in 1..Len(log) : log[i].sender = "user"})

\* the bot entries other than the greeting
BotReplies(log) ==
    Cardinality({i \in 1..Len(log) :
                    log[i].sender = "bot" /\ log[i].text # Greeting})

Greetings(log) ==
    Cardinality({i \in 1..Len(log) :
                    log[i].sender = "bot" /\ log[i].text = Greeting})

\* C15: a non-empty typed message and a quick-action click each append one
\* user entry in the step of the handler; every user entry is eventually
\* followed by exactly one bot reply with one of the two fixed texts, so in
\* every prefix of the chat log the bot replies (greeting excluded) are no
\* more than the user entries, and they are as many once no reply timer is
\* pending; a typed message that is empty or only whitespace appends nothing
\* and tracks no event.
C15_OneReplyPerUserEntry ==
    /\ [](/\ \A k \in 0..Len(chatLog) :
                BotReplies(SubSeq(chatLog, 1, k)) <= UserEntries(SubSeq(chatLog, 1, k))
          /\ BotReplies(chatLog) + Len(replyPending) = UserEntries(chatLog)
          /\ \A i \in 1..Len(chatLog) :
                chatLog[i].sender = "bot" =>
                    chatLog[i].text \in {Greeting, QuickReply, MessageReply})
    /\ [][/\ (ChatSubmit /\ trim(chatInputValue) = Empty) =>
                UNCHANGED <<chatLog, events, replyPending>>
          /\ (ChatSubmit /\ trim(chatInputValue) # Empty) =>
                /\ chatLog' = Append(chatLog, [text |-> trim(chatInputValue),
                                               sender |-> "user"])
                /\ Len(replyPending') = Len(replyPending) + 1
          /\ (ChatQuickClick /\ events' # events) =>
                /\ Len(chatLog') = Len(chatLog) + 1
                /\ chatLog'[Len(chatLog')].sender = "user"
                /\ Len(replyPending') = Len(replyPending) + 1
          /\ UserEntries(chatLog') # UserEntries(chatLog) =>
                (ChatSubmit \/ ChatQuickClick)]_vars
    /\ \A n \in 1..MaxEvents :
          (UserEntries(chatLog) >= n) ~> (BotReplies(chatLog) >= n)

\* a typed message and a quick action have both been answered, the typed
\* message first
C15_Witness ==
    /\ replyPending = <<>>
    /\ UserEntries(chatLog) = 2
    /\ BotReplies(chatLog) = 2
    /\ \E i \in 1..Len(chatLog) : \E j \in 1..Len(chatLog) :
          /\ i < j
          /\ chatLog[i] = [text |-> MessageReply, sender |-> "bot"]
          /\ chatLog[j] = [text |-> QuickReply, sender |-> "bot"]
    /\ chatLog[1] = [text |-> <<"a">>, sender |-> "user"]

\* C20: the greeting is appended to the chat log at most once, under every
\* sequence of bubble clicks and every timing of the 300 ms greeting timer.
C20_GreetingAtMostOnce == Greetings(chatLog) <= 1

----------------------------------------------------------------------------
(* Properties: leads against events, scroll lock, submit buttons *)

\* C17: between any two handlers the leads of type enterprise are as many as
\* the form_submitted events of formType enterprise, likewise for carrier,
\* and the leads of type email are as many as the email_captured events, so
\* the lead list is as long as those events are many.
C17_LeadsMatchEvents ==
    /\ \A form \in Forms :
          LeadsOfType(leads, form) = SubmittedOfType(events, form)
    /\ LeadsOfType(leads, "email") = CapturedEmails(events)
    /\ Len(leads) =
          Cardinality({i \in 1..Len(events) :
                          events[i].event \in {"form_submitted", "email_captured"}})

\* a lead of the email form and a lead of the enterprise form are stored
C17_Witness ==
    /\ LeadsOfType(leads, "email") = 1
    /\ LeadsOfType(leads, "enterprise") = 1
    /\ SubmittedOfType(events, "enterprise") = 1

\* C18: whenever at least one modal is open, the scroll of the body is
\* locked (overflow is hidden).
C18_ScrollLockedWhileOpen == modalActive # {} => bodyOverflow = "hidden"

\* a submission of the form is at its await or waits for its auto-reset
InFlight(form) == Len(delayPending[form]) + resetPending[form]

\* C19: the submit button of the enterprise form and of the carrier form is
\* disabled from the valid submit until the auto-reset of that form: at most
\* one submission per form is in flight, the button is disabled exactly
\* while one is, and only the auto-reset of the same form enables it again.
C19_DisabledWhileInFlight ==
    /\ [](\A form \in Forms :
            /\ InFlight(form) <= 1
            /\ submitDisabled[form] <=> InFlight(form) = 1
            /\ submitDisabled[form] <=> FormPhase(form) # "idle")
    /\ [][/\ (submitDisabled["enterprise"] /\ ~submitDisabled["enterprise"]')
                => EnterpriseAutoReset
          /\ (submitDisabled["carrier"] /\ ~submitDisabled["carrier"]')
                => CarrierAutoReset
          /\ (~submitDisabled["enterprise"] /\ submitDisabled["enterprise"]')
                => ValidSubmit("enterprise")
          /\ (~submitDisabled["carrier"] /\ submitDisabled["carrier"]')
                => ValidSubmit("carrier")]_vars

\* the enterprise form was reset while the submission of the carrier form is
\* still in flight
C19_Witness ==
    /\ LeadsOfType(leads, "enterprise") = 1
    /\ FormIdle("enterprise")
    /\ submitDisabled["carrier"]
    /\ InFlight("carrier") = 1

----------------------------------------------------------------------------
(* Properties: what an auto-reset leaves alone, order of the milestones *)

\* the state of a form that the auto-reset of the other form must not touch:
\* the markers of its inputs, the flags of its button, its success state and
\* its submission in flight
OwnState(form) ==
    <<[id \in RequiredInputs(form) |-> fieldClass[id]], submitLoading[form],
      submitDisabled[form], formSubmitted[form], successShow[form],
      delayPending[form], resetPending[form]>>

\* C21: the auto-reset of the enterprise form leaves the validation markers,
\* the loading and disabled flags, the success state and the in-flight
\* submission of the carrier form unchanged, and the auto-reset of the
\* carrier form leaves those of the enterprise form unchanged.
C21_AutoResetOwnFormOnly ==
    [][/\ EnterpriseAutoReset => OwnState("carrier")' = OwnState("carrier")
       /\ CarrierAutoReset => OwnState("enterprise")' = OwnState("enterprise")]_vars

\* the log positions before i that hold event `name` with `field` = m
EarlierAt(i, name, field, m) ==
    {j \in 1..(i - 1) : events[j].event = name /\ events[j][field] = m}

\* the milestones of `list` fired so far are its first k, logged in order
InOrder(list, fired, name, field) ==
    /\ \A a \in 1..Len(list) : \A b \in 1..Len(list) :
          (a < b /\ list[b] \in fired) => list[a] \in fired
    /\ \A i \in 1..Len(events) : \A b \in 1..Len(list) :
          (events[i].event = name /\ events[i][field] = list[b]) =>
              \A a \in 1..(b - 1) : EarlierAt(i, name, field, list[a]) # {}

\* C22: the fired scroll milestones are downward-closed in {25,50,75,100}
\* and every scroll_depth event is preceded in the log by the scroll_depth
\* events of all smaller milestones; likewise for the time_on_page events
\* over {30,60,120}.
C22_MilestonesInOrder ==
    /\ InOrder(ScrollMilestones, scrollDepths, "scroll_depth", "depth")
    /\ InOrder(TimeMilestones, timeMilestones, "time_on_page", "seconds")

\* one scroll handler logged 25 and 50, a later one 75, between two ticks
\* of the time-on-page timer
C22_Witness ==
    /\ scrollDepths = {25, 50, 75}
    /\ timeMilestones = {30, 60}
    /\ \E i \in 1..Len(events) : \E j \in 1..Len(events) :
          /\ i < j
          /\ events[i].event = "time_on_page"
          /\ events[j].event = "scroll_depth" /\ events[j].depth = 75

====
